---- MODULE Spec2Model ----
(***************************************************************************)
(* The packet_device resource of terraform-provider-packet: the four       *)
(* lifecycle operations (Create, Read, Update, Delete), powerOnAndWait,    *)
(* the state refresh function and the wait for a device attribute.         *)
(*                                                                         *)
(* Time is counted in seconds.  One behaviour runs one operation on one    *)
(* ResourceData d against the remote API; every answer of the remote API   *)
(* is a nondeterministic choice made when the call is issued.              *)
(***************************************************************************)
EXTENDS Integers, Sequences, FiniteSets, TLC

VARIABLES
    d,        \* the schema.ResourceData of the resource: its ID and attributes
    remote,   \* what the remote API holds of the device besides its state
    op,       \* the operation that runs
    pc,       \* where the operation stands
    w,        \* the StateChangeConf of the wait in progress and its clock
    hist,     \* what the refresh calls of the wait returned so far
    last,     \* the latest refresh call: the answers it got, what it returned
    waitRet,  \* what WaitForDeviceAttribute returned
    api,      \* how often each remote call was issued
    ret,      \* what the operation returned
    created,  \* the ID the remote create call returned
    duo       \* two waits for two devices that run at once: each wait as it
              \* is, and as it is when it runs alone

vars == <<d, remote, op, pc, w, hist, last, waitRet, api, ret, created, duo>>

(***************************************************************************)
(* Bounds of the model.                                                    *)
(***************************************************************************)
\* longest address list of a device
MaxAddrs == 2
\* the refresh calls of one wait are counted up to this number, and so many
\* of its polls may follow the one before at the shortest interval
MaxCalls == 3
\* the longest interval between two polls, in seconds
MaxInterval == 1200

(***************************************************************************)
(* Values.                                                                 *)
(***************************************************************************)
DevIDs == {"d1"}

\* lifecycle states the remote API reports; "" is a state not yet populated
RemoteStates == {"", "queued", "provisioning", "active", "off"}

Addresses == {"a1", "a2"}

Families == {4, 6}

NetAddr == [Family : Families, Public : BOOLEAN, Address : Addresses]

RECURSIVE SeqsUpTo(_, _)
SeqsUpTo(S, n) ==
    IF n = 0 THEN {<<>>}
    ELSE LET shorter == SeqsUpTo(S, n - 1)
         IN  shorter \cup {Append(s, x) : s \in {t \in shorter : Len(t) = n - 1}, x \in S}

Networks == SeqsUpTo(NetAddr, MaxAddrs)

NoDev == [ID |-> "", State |-> "", Locked |-> FALSE, Network |-> <<>>,
          OS |-> "", Hostname |-> "", Facility |-> "", Plan |-> ""]

\* the device the remote API reports for id, in lifecycle state s, when rem
\* is what it holds of the device
RemoteDev(rem, id, s) ==
    [ID |-> id, State |-> s, Locked |-> rem.Locked, Network |-> rem.Network,
     OS |-> "os_slug", Hostname |-> "host", Facility |-> "fac_code", Plan |-> "plan_slug"]

NotFound == [kind |-> "notfound", dev |-> NoDev]

Failure == [kind |-> "error", dev |-> NoDev]

\* the answers client.Devices.Get(id) can give: a snapshot of the device
\* named id, a "404 Not Found" error or any other error
GetResponsesOf(rem, id) ==
    {NotFound, Failure}
    \cup (IF id \in DevIDs
          THEN {[kind |-> "ok", dev |-> RemoteDev(rem, id, s)] : s \in RemoteStates}
          ELSE {})

GetResponses(id) == GetResponsesOf(remote, id)

\* the answers of a call that returns no device (Delete, Lock, Unlock, PowerOn)
CallResponses == {"ok", "notfound", "error"}

(***************************************************************************)
(* resourcePacketDeviceRead                                                *)
(***************************************************************************)
\* ScanAddr changed to keep the first address of each class
ScanAddrFirstWins(acc, addr) ==
    IF addr.Family = 4
    THEN IF addr.Public
         THEN IF acc.publicIPv4 = ""
              THEN [d |-> [acc.d EXCEPT !.ipv4_address = addr.Address],
                    publicIPv4 |-> addr.Address]
              ELSE acc
         ELSE [acc EXCEPT !.d.ipv4_address_private = addr.Address]
    ELSE IF addr.Family = 6 /\ addr.Public
         THEN [acc EXCEPT !.d.ipv6_address = addr.Address]
         ELSE acc

\* one iteration of the loop over dev.Network
ScanAddr(acc, addr) ==
    IF addr.Family = 4
    THEN IF addr.Public
         THEN [d |-> [acc.d EXCEPT !.ipv4_address = addr.Address],
               publicIPv4 |-> addr.Address]
         ELSE [acc EXCEPT !.d.ipv4_address_private = addr.Address]
    ELSE IF addr.Family = 6 /\ addr.Public
         THEN [acc EXCEPT !.d.ipv6_address = addr.Address]
         ELSE acc

RECURSIVE ScanNetwork(_, _, _)
ScanNetwork(net, i, acc) ==
    IF i > Len(net) THEN acc
    ELSE ScanNetwork(net, i + 1, ScanAddr(acc, net[i]))

\* resourcePacketDeviceRead changed to report a device that is not found
resourcePacketDeviceReadStrict(dd, resp) ==
    IF resp.kind # "ok" THEN [d |-> dd, err |-> "Error retrieving device"]
    ELSE LET dev  == resp.dev
             set  == [dd EXCEPT !.os = dev.OS, !.hostname = dev.Hostname,
                                !.facility = dev.Facility, !.plan = dev.Plan,
                                !.state = dev.State, !.locked = dev.Locked]
             scan == ScanNetwork(dev.Network, 1, [d |-> set, publicIPv4 |-> ""])
         IN  [d |-> [scan.d EXCEPT !.connType = "ssh", !.connHost = scan.publicIPv4],
              err |-> "nil"]

\* resourcePacketDeviceRead changed to clear the state and the connection
\* info of a device that is not found
resourcePacketDeviceReadWipe(dd, resp) ==
    IF resp.kind = "notfound"
    THEN [d |-> [dd EXCEPT !.id = "", !.state = "", !.connType = "", !.connHost = ""],
          err |-> "nil"]
    ELSE IF resp.kind = "error" THEN [d |-> dd, err |-> "Error retrieving device"]
    ELSE LET dev  == resp.dev
             set  == [dd EXCEPT !.os = dev.OS, !.hostname = dev.Hostname,
                                !.facility = dev.Facility, !.plan = dev.Plan,
                                !.state = dev.State, !.locked = dev.Locked]
             scan == ScanNetwork(dev.Network, 1, [d |-> set, publicIPv4 |-> ""])
         IN  [d |-> [scan.d EXCEPT !.connType = "ssh", !.connHost = scan.publicIPv4],
              err |-> "nil"]

\* the value of d and the error Read returns, given the answer of its Get
resourcePacketDeviceRead(dd, resp) ==
    IF resp.kind = "notfound" THEN [d |-> [dd EXCEPT !.id = ""], err |-> "nil"]
    ELSE IF resp.kind = "error" THEN [d |-> dd, err |-> "Error retrieving device"]
    ELSE LET dev  == resp.dev
             set  == [dd EXCEPT !.os = dev.OS, !.hostname = dev.Hostname,
                                !.facility = dev.Facility, !.plan = dev.Plan,
                                !.state = dev.State, !.locked = dev.Locked]
             scan == ScanNetwork(dev.Network, 1, [d |-> set, publicIPv4 |-> ""])
         IN  [d |-> [scan.d EXCEPT !.connType = "ssh", !.connHost = scan.publicIPv4],
              err |-> "nil"]

(***************************************************************************)
(* newDeviceStateRefreshFunc, for attribute "state"                        *)
(***************************************************************************)
\* d.GetOk("state"): the value is there when it is not the zero value
GetOk(dd) == dd.state # ""

\* RefreshResult changed to take the attribute before Read has refreshed it
RefreshResultStaleState(dd, r1, r2) ==
    LET rd == resourcePacketDeviceRead(dd, r1)
    IN  IF rd.err # "nil"
        THEN [d |-> rd.d, dev |-> NoDev, found |-> FALSE, state |-> "", err |-> rd.err]
        ELSE IF GetOk(rd.d)
        THEN IF r2.kind # "ok"
             THEN [d |-> rd.d, dev |-> NoDev, found |-> FALSE, state |-> "",
                   err |-> "Error retrieving device"]
             ELSE [d |-> rd.d, dev |-> r2.dev, found |-> TRUE, state |-> dd.state,
                   err |-> "nil"]
        ELSE [d |-> rd.d, dev |-> NoDev, found |-> FALSE, state |-> "", err |-> "nil"]

\* RefreshResult changed to report an attribute that is not there as an error
RefreshResultNoValueError(dd, r1, r2) ==
    LET rd == resourcePacketDeviceRead(dd, r1)
    IN  IF rd.err # "nil"
        THEN [d |-> rd.d, dev |-> NoDev, found |-> FALSE, state |-> "", err |-> rd.err]
        ELSE IF GetOk(rd.d)
        THEN IF r2.kind # "ok"
             THEN [d |-> rd.d, dev |-> NoDev, found |-> FALSE, state |-> "",
                   err |-> "Error retrieving device"]
             ELSE [d |-> rd.d, dev |-> r2.dev, found |-> TRUE, state |-> rd.d.state,
                   err |-> "nil"]
        ELSE [d |-> rd.d, dev |-> NoDev, found |-> FALSE, state |-> "",
              err |-> "Error reading attribute"]

\* RefreshResult changed to drop the errors of its two Get calls
RefreshResultSwallow(dd, r1, r2) ==
    LET rd == resourcePacketDeviceRead(dd, r1)
    IN  IF rd.err # "nil"
        THEN [d |-> rd.d, dev |-> NoDev, found |-> FALSE, state |-> "", err |-> "nil"]
        ELSE IF GetOk(rd.d)
        THEN IF r2.kind # "ok"
             THEN [d |-> rd.d, dev |-> NoDev, found |-> FALSE, state |-> "",
                   err |-> "nil"]
             ELSE [d |-> rd.d, dev |-> r2.dev, found |-> TRUE, state |-> rd.d.state,
                   err |-> "nil"]
        ELSE [d |-> rd.d, dev |-> NoDev, found |-> FALSE, state |-> "", err |-> "nil"]

\* the result (dev, state, err) of one refresh call and the value it leaves
\* in d, given the answers r1 of Read's Get and r2 of the second Get
RefreshResult(dd, r1, r2) ==
    LET rd == resourcePacketDeviceRead(dd, r1)
    IN  IF rd.err # "nil"
        THEN [d |-> rd.d, dev |-> NoDev, found |-> FALSE, state |-> "", err |-> rd.err]
        ELSE IF GetOk(rd.d)
        THEN IF r2.kind # "ok"
             THEN [d |-> rd.d, dev |-> NoDev, found |-> FALSE, state |-> "",
                   err |-> "Error retrieving device"]
             ELSE [d |-> rd.d, dev |-> r2.dev, found |-> TRUE, state |-> rd.d.state,
                   err |-> "nil"]
        ELSE [d |-> rd.d, dev |-> NoDev, found |-> FALSE, state |-> "", err |-> "nil"]

\* whether the refresh function issues its second Get
SecondGet(dd, r1) ==
    LET rd == resourcePacketDeviceRead(dd, r1)
    IN  rd.err = "nil" /\ GetOk(rd.d)

(***************************************************************************)
(* WaitForDeviceAttribute and StateChangeConf.WaitForState                 *)
(***************************************************************************)
\* Timeout changed to 30 * time.Minute
TimeoutHalved == 30 * 60

\* Timeout: 60 * time.Minute
Timeout == 3600
\* Delay: 10 * time.Second
Delay == 10
\* MinTimeout: 3 * time.Second
MinTimeout == 3

NoWait == [target |-> "", pending |-> {}, elapsed |-> 0]

NoHist == [calls |-> 0, noValue |-> 0, allNoValue |-> TRUE, priorNoValue |-> TRUE,
           notFound |-> FALSE]

NoCall == [kind |-> "none", dev |-> NoDev]

\* arg: the value of d.Get("locked") an Update ran with; call: the answer of
\* the Create, Delete, Lock, Unlock or PowerOn call; get1, get2: the answers of
\* the Get of Read and of the second Get of the refresh function; final: the
\* answer of the Get of the Read that concludes Create
NoLast == [arg |-> "none", call |-> "none", get1 |-> NoCall, get2 |-> NoCall,
           final |-> NoCall, dev |-> NoDev, found |-> FALSE, state |-> "",
           err |-> "nil"]

NoRet == [outcome |-> "none", snapshot |-> NoDev, value |-> "", calls |-> 0]

\* the target and the pending states of the waits of Create, Delete and
\* powerOnAndWait
WaitTarget == "active"

\* CreatePending changed to tolerate a device that is off
CreatePendingWithOff == {"queued", "provisioning", "off"}

CreatePending == {"queued", "provisioning"}

DeletePending == {"queued", "provisioning"}

\* PowerOnPending changed to tolerate a device that is queued
PowerOnPendingWithQueued == {"off", "queued"}

PowerOnPending == {"off"}

\* the StateChangeConf WaitForDeviceAttribute builds; the first poll comes
\* after the initial delay
WaitForDeviceAttribute(target, pending) ==
    [target |-> target, pending |-> pending, elapsed |-> Delay]

\* what the wait does with one refresh result
WaitStep(conf, res) ==
    IF res.err # "nil" THEN "refresh_error"
    ELSE IF ~res.found THEN "continue"
    ELSE IF res.state = conf.target THEN "success"
    ELSE IF res.state \in conf.pending THEN "continue"
    ELSE "unexpected_state"

Bump(n) == IF n < MaxCalls THEN n + 1 ELSE n

\* the intervals the wait may sleep before its next poll: never less than
\* MinTimeout
PollIntervals(calls) ==
    {MaxInterval} \cup (IF calls < MaxCalls THEN {MinTimeout} ELSE {})

\* one tick of the wait: sleep, refresh, decide
Poll ==
    /\ pc = "wait"
    /\ w.elapsed < Timeout
    /\ \E r1 \in GetResponses(d.id) :
       \E r2 \in (IF SecondGet(d, r1)
                  THEN GetResponses(resourcePacketDeviceRead(d, r1).d.id)
                  ELSE {NoCall}) :
          LET res  == RefreshResult(d, r1, r2)
              step == WaitStep(w, res)
              nov  == res.err = "nil" /\ ~res.found
              h    == [calls |-> Bump(hist.calls),
                       noValue |-> IF nov THEN Bump(hist.noValue) ELSE hist.noValue,
                       allNoValue |-> hist.allNoValue /\ nov,
                       priorNoValue |-> hist.allNoValue,
                       notFound |-> hist.notFound \/ r1.kind = "notfound"]
          IN  /\ d' = res.d
              /\ hist' = h
              /\ last' = [last EXCEPT !.get1 = r1, !.get2 = r2, !.dev = res.dev,
                                      !.found = res.found, !.state = res.state,
                                      !.err = res.err]
              /\ IF step = "continue"
                 THEN /\ \E i \in PollIntervals(hist.calls) :
                            w' = [w EXCEPT !.elapsed = w.elapsed + i]
                      /\ UNCHANGED <<pc, waitRet>>
                 ELSE /\ w' = NoWait
                      /\ pc' = "waited"
                      /\ waitRet' = [outcome |-> step,
                                     snapshot |-> IF step = "success" THEN res.dev ELSE NoDev,
                                     value |-> IF step = "refresh_error" THEN res.err
                                               ELSE IF step = "unexpected_state" THEN res.state
                                               ELSE "",
                                     calls |-> h.calls]
    /\ UNCHANGED <<remote, op, api, ret, created, duo>>

\* the timeout budget is used up
TimedOut ==
    /\ pc = "wait"
    /\ w.elapsed >= Timeout
    /\ w' = NoWait
    /\ pc' = "waited"
    /\ waitRet' = [outcome |-> "timeout", snapshot |-> NoDev, value |-> "",
                   calls |-> hist.calls]
    /\ UNCHANGED <<d, remote, op, hist, last, api, ret, created, duo>>

(***************************************************************************)
(* Two waits at once, each with its own ResourceData                       *)
(***************************************************************************)
Waiters == 1..2

\* the devices of the two waits
DuoIds == <<"d1", "d2">>

\* the first wait is the one of a Create, the second the one of a
\* powerOnAndWait
DuoPending == <<CreatePending, PowerOnPending>>

\* no two waits run
NoDuo == [run |-> <<>>, alone |-> <<>>]

\* what the remote API may answer to a Get of id
DuoResponses(id) ==
    {NotFound, Failure}
    \cup (IF \E i \in Waiters : DuoIds[i] = id
          THEN {[kind |-> "ok", dev |-> RemoteDev(remote, id, s)] : s \in RemoteStates}
          ELSE {})

\* a wait after the refresh call that left dd in its d and returned res
AfterPoll(rec, res, i) ==
    LET step == WaitStep(rec.w, res)
        n    == Bump(rec.calls)
    IN  IF step = "continue"
        THEN [rec EXCEPT !.d = res.d, !.calls = n, !.w.elapsed = @ + i]
        ELSE [d |-> res.d, w |-> NoWait, pc |-> "waited", calls |-> n,
              ret |-> [outcome |-> step,
                       snapshot |-> IF step = "success" THEN res.dev ELSE NoDev,
                       value |-> IF step = "refresh_error" THEN res.err
                                 ELSE IF step = "unexpected_state" THEN res.state
                                 ELSE "",
                       calls |-> n]]

\* a wait that runs alone, after one more refresh call whose Gets were
\* answered r1 and r2
StepAlone(rec, r1, r2, i) == AfterPoll(rec, RefreshResult(rec.d, r1, r2), i)

\* a wait whose timeout budget is used up
AfterTimeout(rec) ==
    [rec EXCEPT !.w = NoWait, !.pc = "waited",
                !.ret = [outcome |-> "timeout", snapshot |-> NoDev, value |-> "",
                         calls |-> rec.calls]]

\* Captured changed to one ResourceData that both refresh functions use
CapturedFirst(i) == 1

\* the wait whose ResourceData the refresh function of wait i reads and
\* writes: the d its closure captured
Captured(i) == i

\* one tick of wait i; the waits sleep the longest interval between polls
PollOf(i) ==
    /\ i \in DOMAIN duo.run
    /\ duo.run[i].pc = "wait"
    /\ duo.run[i].w.elapsed < Timeout
    /\ LET k  == Captured(i)
           dd == duo.run[k].d
       IN  \E r1 \in DuoResponses(dd.id) :
           \E r2 \in (IF SecondGet(dd, r1)
                      THEN DuoResponses(resourcePacketDeviceRead(dd, r1).d.id)
                      ELSE {NoCall}) :
           \E t \in {MaxInterval} :
              LET res   == RefreshResult(dd, r1, r2)
                  wrote == [duo.run EXCEPT ![k].d = res.d]
              IN  duo' = [run |-> [wrote EXCEPT
                                     ![i] = AfterPoll([@ EXCEPT !.d = res.d], res, t)],
                          alone |-> [duo.alone EXCEPT ![i] = StepAlone(@, r1, r2, t)]]
    /\ UNCHANGED <<d, remote, op, pc, w, hist, last, waitRet, api, ret, created>>

\* the timeout budget of wait i is used up
TimedOutOf(i) ==
    /\ i \in DOMAIN duo.run
    /\ duo.run[i].pc = "wait"
    /\ duo.run[i].w.elapsed >= Timeout
    /\ duo' = [run |-> [duo.run EXCEPT ![i] = AfterTimeout(@)],
               alone |-> [duo.alone EXCEPT ![i] = AfterTimeout(@)]]
    /\ UNCHANGED <<d, remote, op, pc, w, hist, last, waitRet, api, ret, created>>

(***************************************************************************)
(* The operations                                                          *)
(***************************************************************************)
NoApi == [create |-> 0, delete |-> 0, lock |-> 0, unlock |-> 0, poweron |-> 0,
          read |-> 0]

Called(name) == [api EXCEPT ![name] = api[name] + 1]

\* CreateCall changed to retry a failed create call once
CreateCallRetry ==
    /\ pc = "idle"
    /\ d.id = ""
    /\ op' = "create"
    /\ \/ /\ ret' = "Error creating device"
          /\ pc' = "done"
          /\ api' = [api EXCEPT !.create = @ + 2]
          /\ last' = [NoLast EXCEPT !.call = "error"]
          /\ UNCHANGED <<d, w, created>>
       \/ \E id \in DevIDs, n \in {1, 2} :
             /\ d' = [d EXCEPT !.id = id]
             /\ created' = id
             /\ api' = [api EXCEPT !.create = @ + n]
             /\ w' = WaitForDeviceAttribute(WaitTarget, CreatePending)
             /\ pc' = "wait"
             /\ last' = [NoLast EXCEPT !.call = "ok"]
             /\ UNCHANGED ret
    /\ UNCHANGED <<remote, hist, waitRet, duo>>

\* resourcePacketDeviceCreate up to the start of the wait
CreateCall ==
    /\ pc = "idle"
    /\ d.id = ""
    /\ op' = "create"
    /\ api' = Called("create")
    /\ \/ /\ ret' = "Error creating device"
          /\ pc' = "done"
          /\ last' = [NoLast EXCEPT !.call = "error"]
          /\ UNCHANGED <<d, w, created>>
       \/ \E id \in DevIDs :
             /\ d' = [d EXCEPT !.id = id]
             /\ created' = id
             /\ w' = WaitForDeviceAttribute(WaitTarget, CreatePending)
             /\ pc' = "wait"
             /\ last' = [NoLast EXCEPT !.call = "ok"]
             /\ UNCHANGED ret
    /\ UNCHANGED <<remote, hist, waitRet, duo>>

\* CreateAfterWait changed to return without the final Read
CreateAfterWaitNoRead ==
    /\ pc = "waited"
    /\ op = "create"
    /\ pc' = "done"
    /\ ret' = (IF waitRet.outcome # "success"
               THEN "Error waiting for device to become ready"
               ELSE "nil")
    /\ UNCHANGED <<d, api, last, remote, op, w, hist, waitRet, created, duo>>

\* resourcePacketDeviceCreate after the wait
CreateAfterWait ==
    /\ pc = "waited"
    /\ op = "create"
    /\ pc' = "done"
    /\ IF waitRet.outcome # "success"
       THEN /\ ret' = "Error waiting for device to become ready"
            /\ UNCHANGED <<d, api, last>>
       ELSE \E r \in GetResponses(d.id) :
               LET rd == resourcePacketDeviceRead(d, r)
               IN  /\ d' = rd.d
                   /\ ret' = rd.err
                   /\ api' = Called("read")
                   /\ last' = [last EXCEPT !.final = r]
    /\ UNCHANGED <<remote, op, w, hist, waitRet, created, duo>>

\* resourcePacketDeviceRead as an operation of its own
Read ==
    /\ pc = "idle"
    /\ d.id # ""
    /\ op' = "read"
    /\ pc' = "done"
    /\ \E r \in GetResponses(d.id) :
          LET rd == resourcePacketDeviceRead(d, r)
          IN  /\ d' = rd.d
              /\ ret' = rd.err
              /\ last' = [NoLast EXCEPT !.get1 = r]
    /\ api' = Called("read")
    /\ UNCHANGED <<remote, w, hist, waitRet, created, duo>>

\* LockAction changed to call the opposite action
LockActionSwapped(locked) == IF locked THEN "unlock" ELSE "lock"

\* the call Update makes when the locked flag changed
LockAction(locked) == IF locked THEN "lock" ELSE "unlock"

\* UpdateAborts changed to go on after a failed call
UpdateAbortsNever(hasChange, lr) == FALSE

\* Update returns the error of its Lock or Unlock call
UpdateAborts(hasChange, lr) == hasChange /\ lr # "ok"

\* resourcePacketDeviceUpdate; locked is the value d.Get("locked") gives, and
\* d.HasChange("locked") holds when it differs from the recorded one
Update ==
    /\ pc = "idle"
    /\ d.id # ""
    /\ op' = "update"
    /\ pc' = "done"
    /\ \E locked \in BOOLEAN, lr \in CallResponses :
          LET hasChange == locked # d.locked
              action    == LockAction(locked)
              arg       == IF locked THEN "locked" ELSE "unlocked"
          IN  IF UpdateAborts(hasChange, lr)
              THEN /\ ret' = IF locked THEN "Error locking device"
                                        ELSE "Error unlocking device"
                   /\ api' = Called(action)
                   /\ last' = [NoLast EXCEPT !.arg = arg, !.call = lr]
                   /\ UNCHANGED <<d, remote>>
              ELSE /\ remote' = IF hasChange THEN [remote EXCEPT !.Locked = locked]
                                              ELSE remote
                   /\ \E r \in GetResponsesOf(remote', d.id) :
                         LET rd == resourcePacketDeviceRead(d, r)
                         IN  /\ d' = rd.d
                             /\ ret' = rd.err
                             /\ last' = [NoLast EXCEPT
                                           !.arg = arg,
                                           !.call = IF hasChange THEN lr ELSE "none",
                                           !.get1 = r]
                   /\ api' = [api EXCEPT ![action] = @ + (IF hasChange THEN 1 ELSE 0),
                                         !.read = @ + 1]
    /\ UNCHANGED <<w, hist, waitRet, created, duo>>

\* resourcePacketDeviceDelete up to the start of the wait
DeleteStart ==
    /\ pc = "idle"
    /\ d.id # ""
    /\ op' = "delete"
    /\ w' = WaitForDeviceAttribute(WaitTarget, DeletePending)
    /\ pc' = "wait"
    /\ UNCHANGED <<d, remote, hist, last, waitRet, api, ret, created, duo>>

\* DeleteAfterWait changed to issue the Delete call whatever the wait returned
DeleteAfterWaitAnyway ==
    /\ pc = "waited"
    /\ op = "delete"
    /\ pc' = "done"
    /\ api' = Called("delete")
    /\ \E r \in CallResponses :
          /\ ret' = IF r = "error" THEN "Error deleting device" ELSE "nil"
          /\ last' = [last EXCEPT !.call = r]
    /\ UNCHANGED <<d, remote, op, w, hist, waitRet, created, duo>>

\* resourcePacketDeviceDelete after the wait
DeleteAfterWait ==
    /\ pc = "waited"
    /\ op = "delete"
    /\ pc' = "done"
    /\ IF waitRet.outcome # "success"
       THEN /\ ret' = "Error waiting for device to be active for destroy"
            /\ UNCHANGED <<api, last>>
       ELSE /\ api' = Called("delete")
            /\ \E r \in CallResponses :
                  /\ ret' = IF r = "error" THEN "Error deleting device" ELSE "nil"
                  /\ last' = [last EXCEPT !.call = r]
    /\ UNCHANGED <<d, remote, op, w, hist, waitRet, created, duo>>

\* powerOnAndWait up to the start of the wait
PowerOn ==
    /\ pc = "idle"
    /\ d.id # ""
    /\ op' = "poweron"
    /\ api' = Called("poweron")
    /\ \E r \in CallResponses :
          /\ last' = [NoLast EXCEPT !.call = r]
          /\ IF r # "ok"
             THEN /\ ret' = "power on error"
                  /\ pc' = "done"
                  /\ UNCHANGED w
             ELSE /\ w' = WaitForDeviceAttribute(WaitTarget, PowerOnPending)
                  /\ pc' = "wait"
                  /\ UNCHANGED ret
    /\ UNCHANGED <<d, remote, hist, waitRet, created, duo>>

\* powerOnAndWait after the wait
PowerOnAfterWait ==
    /\ pc = "waited"
    /\ op = "poweron"
    /\ pc' = "done"
    /\ ret' = IF waitRet.outcome = "success" THEN "nil" ELSE waitRet.outcome
    /\ UNCHANGED <<d, remote, op, w, hist, last, waitRet, api, created, duo>>

(***************************************************************************)
(* The specification                                                       *)
(***************************************************************************)
\* d as the configuration gives it before the device exists
FreshData ==
    [id |-> "", os |-> "cfg_os", hostname |-> "cfg_host", facility |-> "cfg_fac",
     plan |-> "cfg_plan", state |-> "", locked |-> FALSE, ipv4_address |-> "",
     ipv4_address_private |-> "", ipv6_address |-> "", connType |-> "",
     connHost |-> ""]

\* the address lists of the devices the operations run against
NetSamples ==
    {<<>>,
     <<[Family |-> 4, Public |-> FALSE, Address |-> "a1"],
       [Family |-> 4, Public |-> TRUE, Address |-> "a2"]>>}

\* d as a Read of device id in state s left it when the remote API held rem
TrackedDataOf(rem, id, s) ==
    resourcePacketDeviceRead([FreshData EXCEPT !.id = id],
                             [kind |-> "ok", dev |-> RemoteDev(rem, id, s)]).d

\* d as an earlier Read of device id in state s left it
TrackedData(id, s) == TrackedDataOf(remote, id, s)

InitWith(nets) ==
    /\ remote \in [Locked : BOOLEAN, Network : nets]
    /\ d \in {FreshData} \cup {TrackedData(id, s) : id \in DevIDs, s \in RemoteStates}
    /\ op = "none"
    /\ pc = "idle"
    /\ w = NoWait
    /\ hist = NoHist
    /\ last = NoLast
    /\ waitRet = NoRet
    /\ api = NoApi
    /\ ret = "none"
    /\ created = ""
    /\ duo = NoDuo

Init == InitWith(NetSamples)

Next ==
    \/ CreateCall
    \/ CreateAfterWait
    \/ Read
    \/ Update
    \/ DeleteStart
    \/ DeleteAfterWait
    \/ PowerOn
    \/ PowerOnAfterWait
    \/ Poll
    \/ TimedOut

Spec == Init /\ [][Next]_vars

\* Read alone, on every address list of up to MaxAddrs entries
InitRead == InitWith(Networks)

NextRead == Read

SpecRead == InitRead /\ [][NextRead]_vars

\* a Read that follows an earlier Read of the device, whose lock and address
\* list may have changed on the remote side in between
InitReread ==
    /\ remote \in [Locked : BOOLEAN, Network : NetSamples]
    /\ d \in {TrackedDataOf(rem, id, s) :
                 rem \in [Locked : BOOLEAN, Network : NetSamples],
                 id \in DevIDs, s \in RemoteStates}
    /\ op = "none"
    /\ pc = "idle"
    /\ w = NoWait
    /\ hist = NoHist
    /\ last = NoLast
    /\ waitRet = NoRet
    /\ api = NoApi
    /\ ret = "none"
    /\ created = ""
    /\ duo = NoDuo

NextReread == Read

SpecReread == InitReread /\ [][NextReread]_vars

\* wait i as WaitForDeviceAttribute starts it: the first for a device just
\* created, the second for a device that an earlier Read found off
DuoWait(rem, i) ==
    [d |-> IF i = 1 THEN [FreshData EXCEPT !.id = DuoIds[i]]
                    ELSE TrackedDataOf(rem, DuoIds[i], "off"),
     w |-> WaitForDeviceAttribute(WaitTarget, DuoPending[i]),
     pc |-> "wait",
     calls |-> 0,
     ret |-> NoRet]

\* two waits for two devices, started together
InitTwo ==
    /\ remote \in [Locked : BOOLEAN, Network : NetSamples]
    /\ d = FreshData
    /\ op = "none"
    /\ pc = "idle"
    /\ w = NoWait
    /\ hist = NoHist
    /\ last = NoLast
    /\ waitRet = NoRet
    /\ api = NoApi
    /\ ret = "none"
    /\ created = ""
    /\ duo = [run |-> [i \in Waiters |-> DuoWait(remote, i)],
              alone |-> [i \in Waiters |-> DuoWait(remote, i)]]

NextTwo ==
    \/ \E i \in Waiters : PollOf(i)
    \/ \E i \in Waiters : TimedOutOf(i)

SpecTwo == InitTwo /\ [][NextTwo]_vars

(***************************************************************************)
(* The claims                                                              *)
(***************************************************************************)
Waiting == op \in {"create", "delete", "poweron"}

\* the pending states of the wait of the operation that runs, as the claims
\* give them
ClaimedPending ==
    IF op = "poweron" THEN {"off"} ELSE {"queued", "provisioning"}

\* the latest refresh call of a wait saw the device in state s: Read's Get
\* answered with it and the second Get answered with a device
Observed(s) ==
    /\ Waiting
    /\ last.get1.kind = "ok"
    /\ last.get1.dev.State = s
    /\ last.get2.kind = "ok"

\* C1: when the latest refresh call of a wait observed the target state
\* "active", every result before it having been no value or a pending state,
\* the wait has returned success, and the snapshot it returned is the device
\* the second Get of that refresh call answered with.
C1_SuccessOnTarget ==
    Observed("active") =>
        /\ pc # "wait"
        /\ waitRet.outcome = "success"
        /\ waitRet.snapshot = last.get2.dev

\* a wait succeeded at its third refresh call, after pending states, with a
\* snapshot whose state is no longer the one observed
C1_Witness ==
    /\ Observed("active")
    /\ waitRet.outcome = "success"
    /\ hist.calls = 3
    /\ ~hist.priorNoValue
    /\ waitRet.snapshot.State = "off"

\* C2: when a refresh call of a wait observed a state that is neither the
\* target nor pending, the wait has ended with the unexpected-state error
\* that names this state, and no refresh call follows: the wait is over and
\* the number of its calls is the one it returned with.
C2_UnexpectedStateEndsWait ==
    \A s \in RemoteStates \ ({"", "active"} \cup ClaimedPending) :
        Observed(s) =>
            /\ pc # "wait"
            /\ waitRet.outcome = "unexpected_state"
            /\ waitRet.value = s
            /\ waitRet.calls = hist.calls

\* the wait of a Create ended on a device that is off, at its second call
C2_Witness ==
    /\ op = "create"
    /\ Observed("off")
    /\ waitRet.outcome = "unexpected_state"
    /\ hist.calls = 2

\* C3, as claimed: when Create returns the error of its wait, the tracked ID
\* is the one the remote create call returned.
C3_IdKeptWhenWaitFails ==
    (op = "create" /\ pc = "done" /\ created # ""
        /\ ret = "Error waiting for device to become ready")
    => d.id = created

\* C4, as claimed: a Delete whose wait got not-found from the remote API, and
\* whose delete call, if one was issued, got not-found too, returns no error.
C4_DeleteOfMissingDevice ==
    (op = "delete" /\ pc = "done" /\ hist.notFound
        /\ (api.delete > 0 => last.call = "notfound"))
    => ret = "nil"

\* C5: the remote Delete call is issued at most once, and only by a Delete
\* whose wait returned success after a refresh call that observed the state
\* "active"; while the wait lasts, and when it failed, no Delete call was
\* issued.
C5_DeleteOnlyWhenActive ==
    /\ api.delete \in {0, 1}
    /\ api.delete = 1 =>
          /\ op = "delete"
          /\ pc = "done"
          /\ waitRet.outcome = "success"
          /\ Observed("active")
    /\ (pc = "wait" \/ waitRet.outcome \notin {"none", "success"}) => api.delete = 0

\* a Delete issued its Delete call after a wait of three refresh calls
C5_Witness ==
    /\ api.delete = 1
    /\ hist.calls = 3
    /\ ~hist.priorNoValue
    /\ ret = "nil"

\* the entries of class (family, public) of an address list
EntriesOf(net, family, public) ==
    {i \in 1..Len(net) : net[i].Family = family /\ net[i].Public = public}

FirstOf(net, family, public) ==
    LET S == EntriesOf(net, family, public)
    IN  net[CHOOSE i \in S : \A j \in S : i <= j].Address

LastOf(net, family, public) ==
    LET S == EntriesOf(net, family, public)
    IN  net[CHOOSE i \in S : \A j \in S : i >= j].Address

\* a Read that found the device has returned
ReadFound == op = "read" /\ pc = "done" /\ last.get1.kind = "ok"

\* C6, as claimed: after a Read, each of the three address attributes is the
\* address of the first entry of its class in the device's address list.
C6_FirstAddressWins ==
    ReadFound =>
        LET net == last.get1.dev.Network
        IN  /\ EntriesOf(net, 4, TRUE) # {} =>
                  d.ipv4_address = FirstOf(net, 4, TRUE)
            /\ EntriesOf(net, 4, FALSE) # {} =>
                  d.ipv4_address_private = FirstOf(net, 4, FALSE)
            /\ EntriesOf(net, 6, TRUE) # {} =>
                  d.ipv6_address = FirstOf(net, 6, TRUE)

\* C6, amended: after a Read, each of the three address attributes is the
\* address of the last entry of its class in the device's address list: a
\* later entry of a class overwrites an earlier one.
C6_LastAddressWins ==
    ReadFound =>
        LET net == last.get1.dev.Network
        IN  /\ EntriesOf(net, 4, TRUE) # {} =>
                  d.ipv4_address = LastOf(net, 4, TRUE)
            /\ EntriesOf(net, 4, FALSE) # {} =>
                  d.ipv4_address_private = LastOf(net, 4, FALSE)
            /\ EntriesOf(net, 6, TRUE) # {} =>
                  d.ipv6_address = LastOf(net, 6, TRUE)

\* a Read of a device with two public IPv4 addresses recorded the second
C6_Witness ==
    /\ ReadFound
    /\ Cardinality(EntriesOf(last.get1.dev.Network, 4, TRUE)) = 2
    /\ FirstOf(last.get1.dev.Network, 4, TRUE) = "a1"
    /\ d.ipv4_address = "a2"

\* an Update has returned
Updated == op = "update" /\ pc = "done"

\* C7, as claimed: an Update that got not-found from the remote API, from
\* its Lock or Unlock call or from the Get of its Read, returns an error.
C7_UpdateSurfacesNotFound ==
    (Updated /\ (last.call = "notfound" \/ last.get1.kind = "notfound"))
    => ret # "nil"

\* C7, amended: an Update whose Lock or Unlock call got not-found returns the
\* locking or unlocking error; an Update whose concluding Read got not-found
\* from Get returns no error and has cleared the tracked ID, whether the
\* locked flag changed or not.
C7_UpdateNotFound ==
    /\ (Updated /\ last.call = "notfound") =>
          /\ ret \in {"Error locking device", "Error unlocking device"}
          /\ api.read = 0
    /\ (Updated /\ last.get1.kind = "notfound") =>
          /\ ret = "nil"
          /\ d.id = ""
          /\ last.call \in {"none", "ok"}

\* an Update locked the device and then found it gone
C7_Witness ==
    /\ Updated
    /\ api.lock = 1
    /\ last.call = "ok"
    /\ last.get1.kind = "notfound"
    /\ ret = "nil"

\* the latest refresh call of a wait found no value of the attribute: Read's
\* Get answered with a device whose state is not populated
ObservedNoValue ==
    /\ Waiting
    /\ last.get1.kind = "ok"
    /\ last.get1.dev.State = ""

\* C8: a refresh call that finds no value never ends the wait with an error
\* (the wait goes on, or the timeout ends it), and a wait whose refresh calls
\* found no value N times and then observed the target has returned success
\* after N + 1 calls.
C8_NoValueKeepsWaiting ==
    /\ ObservedNoValue =>
          /\ last.err = "nil"
          /\ pc = "wait" \/ waitRet.outcome = "timeout"
    /\ (Observed("active") /\ hist.priorNoValue /\ hist.noValue < MaxCalls) =>
          /\ waitRet.outcome = "success"
          /\ waitRet.calls = hist.noValue + 1
          /\ hist.calls = waitRet.calls

\* a wait succeeded at its third refresh call after two calls without value
C8_Witness ==
    /\ Observed("active")
    /\ hist.priorNoValue
    /\ hist.noValue = 2
    /\ waitRet.outcome = "success"
    /\ waitRet.calls = 3

\* C9: a wait whose 60 minutes have elapsed polls no more and returns the
\* timeout error, which is none of the other outcomes; and a wait returns
\* the timeout error only when its 60 minutes have elapsed.
C9_TimeoutAfterSixtyMinutes ==
    [][/\ (pc = "wait" /\ w.elapsed >= 3600) =>
             /\ pc' = "waited"
             /\ waitRet'.outcome = "timeout"
             /\ hist' = hist
       /\ (pc = "wait" /\ waitRet'.outcome = "timeout") => w.elapsed >= 3600]_vars

\* a wait whose refresh calls all observed pending states timed out
C9_Witness ==
    /\ waitRet.outcome = "timeout"
    /\ last.found
    /\ last.state \in ClaimedPending
    /\ ~hist.priorNoValue
    /\ pc = "done"
    /\ ret \notin {"nil", "none"}

\* a Get of the latest refresh call of a wait failed: the Get of its Read
\* with an error other than not-found, or its second Get
GetFailed ==
    /\ Waiting
    /\ \/ last.get1.kind = "error"
       \/ last.get2.kind \in {"error", "notfound"}

\* C10: when a refresh call returns an error, the wait has ended with this
\* error, and no refresh call follows.
C10_RefreshErrorEndsWait ==
    GetFailed =>
        /\ pc # "wait"
        /\ waitRet.outcome = "refresh_error"
        /\ waitRet.value = "Error retrieving device"
        /\ waitRet.calls = hist.calls

\* a wait ended at its second refresh call, whose second Get failed
C10_Witness ==
    /\ GetFailed
    /\ last.get1.kind = "ok"
    /\ last.get2.kind = "error"
    /\ hist.calls = 2
    /\ waitRet.outcome = "refresh_error"

\* C11: a Read whose Get answers not-found returns no error and leaves d as
\* it was but for the tracked ID, which it sets to empty: no attribute and
\* no connection info is written.
C11_ReadOfMissingDevice ==
    [][(pc = "idle" /\ op' = "read" /\ last'.get1.kind = "notfound") =>
          /\ ret' = "nil"
          /\ pc' = "done"
          /\ d'.id = ""
          /\ d' = [d EXCEPT !.id = ""]]_vars

\* a Read found the device gone and kept what an earlier Read recorded
C11_Witness ==
    /\ op = "read"
    /\ pc = "done"
    /\ last.get1.kind = "notfound"
    /\ ret = "nil"
    /\ d.id = ""
    /\ d.state = "active"
    /\ d.ipv4_address = "a2"
    /\ d.connHost = "a2"

\* an Update runs: the step it takes
UpdateStep == pc = "idle" /\ op' = "update"

\* the locked flag the Update asks for differs from the recorded one
LockedChanged == (last'.arg = "locked") # d.locked

\* C12: an Update that changes locked from false to true issues one Lock
\* call and no Unlock call, one that changes it from true to false one
\* Unlock call and no Lock call, one that leaves it issues neither; and an
\* Update whose Lock or Unlock call met no error ends with exactly one Read.
C12_LockOrUnlockOnce ==
    [][UpdateStep =>
          /\ (LockedChanged /\ last'.arg = "locked") =>
                (api'.lock = 1 /\ api'.unlock = 0 /\ ~d.locked)
          /\ (LockedChanged /\ last'.arg = "unlocked") =>
                (api'.unlock = 1 /\ api'.lock = 0 /\ d.locked)
          /\ ~LockedChanged => (api'.lock = 0 /\ api'.unlock = 0)
          /\ last'.call \in {"none", "ok"} =>
                (api'.read = 1 /\ last'.get1.kind # "none" /\ pc' = "done")]_vars

\* an Update locked an unlocked device and its Read recorded it as locked
C12_Witness ==
    /\ op = "update"
    /\ pc = "done"
    /\ last.arg = "locked"
    /\ api.lock = 1
    /\ api.unlock = 0
    /\ api.read = 1
    /\ last.get1.kind = "ok"
    /\ d.locked

C14_CreateErrorStopsCreate ==
    (op = "create" /\ last.call = "error") =>
        /\ pc = "done"
        /\ ret = "Error creating device"
        /\ api.create = 1
        /\ d.id = ""
        /\ created = ""
        /\ w = NoWait
        /\ waitRet = NoRet
        /\ hist.calls = 0
        /\ api.read = 0
        /\ last.get1 = NoCall /\ last.get2 = NoCall /\ last.final = NoCall

\* a Create returned the error of its create call
C14_Witness ==
    /\ op = "create"
    /\ pc = "done"
    /\ last.call = "error"
    /\ ret = "Error creating device"
    /\ d = FreshData

\* C15: an Update whose Lock or Unlock call failed returns the locking or
\* unlocking error at once: that call was the only one (the opposite action
\* was not called, the call was not repeated), no Read was performed, and d
\* is what it was before the Update.
C15_FailedLockAbortsUpdate ==
    [][(UpdateStep /\ last'.call \in {"notfound", "error"}) =>
          /\ pc' = "done"
          /\ ret' = (IF last'.arg = "locked" THEN "Error locking device"
                                             ELSE "Error unlocking device")
          /\ api'.lock = (IF last'.arg = "locked" THEN 1 ELSE 0)
          /\ api'.unlock = (IF last'.arg = "unlocked" THEN 1 ELSE 0)
          /\ api'.read = 0
          /\ last'.get1 = NoCall
          /\ d' = d]_vars

\* an Update of a locked device returned the error of its Unlock call
C15_Witness ==
    /\ op = "update"
    /\ pc = "done"
    /\ last.arg = "unlocked"
    /\ last.call = "error"
    /\ ret = "Error unlocking device"
    /\ api.unlock = 1
    /\ api.lock = 0
    /\ d.locked

\* C16, as claimed: when a wait for the state attribute returned success,
\* the device snapshot it returned has the target state "active".
C16_SnapshotHasTargetState ==
    waitRet.outcome = "success" => waitRet.snapshot.State = WaitTarget

CreateSucceeded == op = "create" /\ pc = "done" /\ ret = "nil"

\* C17, as claimed: when Create returned success the tracked ID is the
\* non-empty ID the remote create call returned and the state attribute is
\* "active".
C17_CreatedIsActive ==
    CreateSucceeded => (d.id # "" /\ d.id = created /\ d.state = "active")

\* C17, amended: when Create returned success, its wait had succeeded and its
\* final Read got an answer other than an error.  If that answer was the
\* device, the tracked ID is the non-empty ID of the create call and the
\* state attribute is the state of that answer, whichever it is; if it was
\* not-found, the tracked ID is empty and the state attribute is the "active"
\* the wait observed.
C17_CreatedAsLastRead ==
    CreateSucceeded =>
        /\ waitRet.outcome = "success"
        /\ created # ""
        /\ last.final.kind \in {"ok", "notfound"}
        /\ last.final.kind = "ok" =>
              (d.id = created /\ d.state = last.final.dev.State)
        /\ last.final.kind = "notfound" =>
              (d.id = "" /\ d.state = "active")

\* a Create returned success after the device was powered off between the
\* wait and the final Read
C17_Witness ==
    /\ CreateSucceeded
    /\ last.final.kind = "ok"
    /\ last.final.dev.State = "off"
    /\ d.id = created
    /\ d.state = "off"

\* C18, as claimed: after a Read that found the device, the connection-info
\* host equals the ipv4_address attribute when the snapshot has a public IPv4
\* address, and both are empty when it has none.
C18_HostIsRecordedAddress ==
    ReadFound =>
        IF EntriesOf(last.get1.dev.Network, 4, TRUE) # {}
        THEN d.connHost = d.ipv4_address
        ELSE d.connHost = "" /\ d.ipv4_address = ""

\* what holds of a powerOnAndWait in every state
PowerOnState ==
    op = "poweron" =>
        /\ api.poweron = 1
        /\ last.call # "ok" =>
              /\ pc = "done"
              /\ ret = "power on error"
              /\ hist.calls = 0
              /\ last.get1 = NoCall /\ last.get2 = NoCall
              /\ w = NoWait
              /\ waitRet = NoRet
        /\ pc = "wait" => (w.target = "active" /\ w.pending = {"off"})
        /\ waitRet.outcome = "success" => Observed("active")
        /\ Observed("active") => waitRet.outcome = "success"
        /\ \A s \in {"queued", "provisioning"} :
              Observed(s) =>
                  /\ pc # "wait"
                  /\ waitRet.outcome = "unexpected_state"
                  /\ waitRet.value = s
        /\ (Observed("off") \/ ObservedNoValue) =>
              (pc = "wait" \/ waitRet.outcome = "timeout")

\* the wait of a powerOnAndWait goes on after a refresh call
PowerOnWaitGoesOn == op = "poweron" /\ pc = "wait" /\ pc' = "wait"

\* C19: powerOnAndWait calls PowerOn once; when the call failed its error
\* is returned and no refresh call is made.  The wait has target "active" and
\* pending set {"off"}: it goes on only after a refresh call that observed
\* "off" or no value, so it has succeeded exactly when "active" was observed
\* after nothing but "off" and no value, and observing "queued" or
\* "provisioning" has ended it with the unexpected-state error.
C19_PowerOnAndWait ==
    /\ []PowerOnState
    /\ [][PowerOnWaitGoesOn =>
             /\ last'.err = "nil"
             /\ last'.get1.kind \in {"ok", "notfound"}
             /\ last'.get1.kind = "ok" => last'.get1.dev.State \in {"", "off"}
             /\ api' = api]_vars

\* a powerOnAndWait succeeded at its third refresh call, after the device
\* was observed off
C19_Witness ==
    /\ op = "poweron"
    /\ pc = "done"
    /\ ret = "nil"
    /\ api.poweron = 1
    /\ Observed("active")
    /\ hist.calls = 3
    /\ ~hist.priorNoValue

====
